---- MODULE Spec2Model ----
(***************************************************************************)
(* Model of rpi/motor.py (class Motor): the registry Motor.motors, the id  *)
(* counter Motor._count, the per-motor calibration and backend flags, the  *)
(* speed scaler, the serial packet encoder and the PWM output.             *)
(*                                                                         *)
(* Numbers.  The program computes with floats.  Here an input (speed,      *)
(* start_input, max_speed) is an exact fraction <<n, d>> with d > 0, and a *)
(* scaled speed, which the program rounds to 4 decimal digits, is the      *)
(* integer number of 1/Ticks units it holds (0.48 is 4800).  A PWM duty    *)
(* cycle is kept in units of 1/Ticks percent (48% is 480000).              *)
(*                                                                         *)
(* The pin capability (RPi.GPIO) and the serial port are external: their   *)
(* calls are taken to succeed, and their effect is recorded in the pin     *)
(* levels below and in the effect log of the current call.                 *)
(***************************************************************************)
EXTENDS Integers, Sequences, FiniteSets, TLC

\* ------------------------------------------------------------ constants
\* The capacity test `Motor._count == 4`.
MaxMotors == 4
\* round(speed, 4): a scaled speed has 4 decimal digits.
Ticks == 10000
\* The 5-bit speed field is int(abs(scaled) * 31).
SpeedFactor == 31
\* ChangeDutyCycle(abs(speed) * 100).
DutyFactor == 100
\* sleep(0.1) in reset_driver(), in milliseconds
SettleMs == 100

\* ------------------------------------------------------------ bounds
\* Inputs are the fractions k/GridDen and k/FineDen.
GridDen == 10
FineDen == 3
\* shutdown_all() is called at most this many times in a run.
MaxCleanups == 2
\* The drive path is explored with at most this many motors.
MaxDriveMotors == 2
\* Two interleaved threads construct at most this many motors.
MaxRaceMotors == 2
\* The fault lines change level at most this many times in a run.
MaxEdges == 2
\* The fault handler is explored with at most this many motors.
MaxFaultMotors == 1

\* ------------------------------------------------------------ fractions
Num(q) == q[1]
Den(q) == q[2]
Abs(n) == IF n < 0 THEN -n ELSE n

\* q < 0 and 0 <= q <= 1 for a fraction with a positive denominator.
IsNeg(q) == Num(q) < 0
InUnit(q) == 0 <= Num(q) /\ Num(q) <= Den(q)

Zero == <<0, 1>>

\* The fractions k/d with lo <= k/d <= hi given as k in lo*d .. hi*d.
Fractions(lo, hi, d) == {<<k, d>> : k \in (lo * d)..(hi * d)}

\* ------------------------------------------------------------ rounding
\* round(n/d, 4) for n >= 0, d > 0, in 1/Ticks units.  The outcomes: the
\* nearest multiple, and at an exact decimal tie both neighbours, since the
\* side a binary float falls on is not decided by the decimal value.
RoundTicks(n, d) ==
    LET lo == (n * Ticks) \div d
        r2 == 2 * ((n * Ticks) % d)
    IN  IF r2 < d THEN {lo}
        ELSE IF r2 > d THEN {lo + 1}
        ELSE {lo, lo + 1}

\* ------------------------------------------------------------ Speed Scaler
Sign(n) == IF n < 0 THEN -1 ELSE IF n > 0 THEN 1 ELSE 0

\* Mutant: the branch for speed > 0 is taken for every speed.
RemapForwardOnly(speed, start_input) ==
    Num(speed) * (Den(start_input) - Num(start_input))
        + Num(start_input) * Den(speed)

\* The dead-zone remap of _scale_speed, as a numerator over
\* Den(speed) * Den(start_input):
\*   speed > 0:  speed * (1 - start_input) + start_input
\*   speed < 0:  speed * (1 - start_input) - start_input
\*   speed = 0:  speed
Remap(speed, start_input) ==
    IF Num(speed) > 0
    THEN Num(speed) * (Den(start_input) - Num(start_input))
             + Num(start_input) * Den(speed)
    ELSE IF Num(speed) < 0
    THEN Num(speed) * (Den(start_input) - Num(start_input))
             - Num(start_input) * Den(speed)
    ELSE 0

\* The product Remap * max_speed before rounding, as numerator and
\* denominator.
ScaledNum(speed, start_input, max_speed) ==
    Remap(speed, start_input) * Num(max_speed)

ScaledDen(speed, start_input, max_speed) ==
    Den(speed) * Den(start_input) * Den(max_speed)

\* _scale_speed: the values round(remapped * max_speed, 4) can return, in
\* 1/Ticks units.  round() is symmetric about zero.
ScaleSpeed(speed, start_input, max_speed) ==
    LET n == ScaledNum(speed, start_input, max_speed)
        d == ScaledDen(speed, start_input, max_speed)
    IN  {Sign(n) * r : r \in RoundTicks(Abs(n), d)}

\* ------------------------------------------------------------ Packet Codec
\* MotorPacket.as_byte (rpi/bitfields.py): bits [7:6] motor_id, bit [5]
\* negative, bits [4:0] speed; a field keeps the low bits of what is
\* stored in it.
AsByte(motor_id, negative, speed) ==
    (motor_id % 4) * 64 + (negative % 2) * 32 + (speed % 32)

ByteMotorId(byte) == byte \div 64
ByteNegative(byte) == (byte \div 32) % 2
ByteSpeed(byte) == byte % 32

\* Mutant: the product is rounded to the nearest integer.
SpeedFieldRounded(scaled) ==
    (2 * Abs(scaled) * SpeedFactor + Ticks) \div (2 * Ticks)

\* packet.speed = int(abs(scaled) * 31), for a scaled speed in 1/Ticks
\* units: int() drops the fraction.
SpeedField(scaled) ==
    (Abs(scaled) * SpeedFactor) \div Ticks

\* Mutant: the sign bit is also set for speed 0.
NegativeFieldNonPositive(speed) == IF Num(speed) <= 0 THEN 1 ELSE 0

\* packet.negative = 1 if speed < 0 else 0, from the requested speed.
NegativeField(speed) == IF IsNeg(speed) THEN 1 ELSE 0

\* _transmit: the bytes that can be written for a requested speed.
Transmit(motor_id, speed, start_input, max_speed) ==
    {AsByte(motor_id, NegativeField(speed), SpeedField(s)) :
        s \in ScaleSpeed(speed, start_input, max_speed)}

\* ------------------------------------------------------------ PWM output
\* Mutant: DIR is set from the requested speed.
PwmDriveDirFromRequest(speed, start_input, max_speed) ==
    {[dir |-> IF IsNeg(speed) THEN "LOW" ELSE "HIGH",
      duty |-> Abs(s) * DutyFactor] :
        s \in ScaleSpeed(speed, start_input, max_speed)}

\* _pwm_drive: DIR is LOW when the scaled speed is negative, HIGH
\* otherwise; the duty cycle is abs(scaled) * 100 percent.
PwmDrive(speed, start_input, max_speed) ==
    {[dir |-> IF s < 0 THEN "LOW" ELSE "HIGH", duty |-> Abs(s) * DutyFactor] :
        s \in ScaleSpeed(speed, start_input, max_speed)}

\* ------------------------------------------------------------ inputs
\* Calibration pairs <<start_input, max_speed>> a caller constructs a
\* Motor with; the last two are outside [0,1].
Calibrations ==
    {<<Zero, <<1, 1>>>>, <<<<1, 5>>, <<4, 5>>>>,
     <<<<3, 2>>, <<1, 1>>>>, <<Zero, <<-1, 2>>>>}

\* Speeds a caller drives a motor with.
DriveSpeeds == {<<-1, 1>>, Zero, <<1, 2>>}

\* The speeds in [-1,1] and the calibration values in [0,1] on the grids.
GridSpeeds == Fractions(-1, 1, GridDen) \cup Fractions(-1, 1, FineDen)
GridUnit == Fractions(0, 1, GridDen) \cup Fractions(0, 1, FineDen)

\* ------------------------------------------------------------ state
VARIABLES
    motors,       \* Motor.motors: the registered motors, in list order
    count,        \* Motor._count
    motor_id,     \* self.motor_id of each constructed motor
    start_input,  \* self.start_input
    max_speed,    \* self.max_speed
    has_serial,   \* self.has_serial
    has_pwm,      \* self.has_pwm
    reset_pin,    \* level of the reset line
    dir_pin,      \* level of the DIR line
    duty,         \* PWM duty cycle, in 1/Ticks percent
    detect,       \* fault callbacks attached (gpio.add_event_detect)
    cleanups,     \* number of gpio.cleanup() calls so far
    last,         \* the last call: operation, object, argument, result
    out,          \* the effects of the last call, in program order
    thr,          \* each command thread: where it is inside a call
    fault_1,      \* level of each motor's FF1 line (TRUE is high)
    fault_2,      \* level of each motor's FF2 line
    pending,      \* rising edges whose callback has not started yet
    handler,      \* the callback thread: where it is in _catch_fault
    flog,         \* what the last finished _catch_fault invocation logged
    edges         \* number of level changes of the fault lines so far

\* What the command threads, the fault lines and the callback thread add
\* to the state of the Motor class.
auxVars == <<thr, fault_1, fault_2, pending, handler, flog, edges>>

vars == <<motors, count, motor_id, start_input, max_speed, has_serial,
          has_pwm, reset_pin, dir_pin, duty, detect, cleanups, last, out,
          thr, fault_1, fault_2, pending, handler, flog, edges>>

\* Everything a call can change except its own record (last, out).
progState == <<motors, count, motor_id, start_input, max_speed, has_serial,
               has_pwm, reset_pin, dir_pin, duty, detect, cleanups>>

\* The fault lines and the callback thread.
faultVars == <<fault_1, fault_2, pending, handler, flog, edges>>

\* The threads that call into the class.
Threads == {"main", "other"}

\* A thread between two calls.
Idle == [pc |-> "idle", self |-> -1, cal |-> <<Zero, Zero>>, tmp |-> 0,
         ret |-> "idle", out |-> <<>>]

\* The callback thread between two invocations.
HandlerIdle == [pc |-> "idle", self |-> -1, channel |-> 0,
                at |-> <<FALSE, FALSE>>, held |-> {}]

\* No invocation has finished yet.
NoFaultLog == [self |-> -1, channel |-> 0, tags |-> <<>>,
               at |-> <<FALSE, FALSE>>, held |-> {}]

\* The thread is inside __init__ (its reset_driver() call returns to
\* the append of line 132).
InInit(t) == thr[t].pc # "idle" /\ thr[t].ret = "init_append"

\* Motor objects, named in order of construction: object k is the one
\* whose __init__ ran to the end when k objects existed.  An object lives
\* on after shutdown() has taken it out of Motor.motors.
\* One object more than the class means to admit, so that a fifth
\* construction has an object to run on.
Objs == 0..MaxMotors

\* The Motor objects constructed so far: __init__ has returned.
Objects ==
    {o \in Objs : /\ motor_id[o] # -1
                  /\ \A t \in Threads : ~(InInit(t) /\ thr[t].self = o)}

\* `self in Motor.motors`
Registered(o) == \E i \in 1..Len(motors) : motors[i] = o

\* The objects in Motor.motors.
Live == {motors[i] : i \in 1..Len(motors)}

\* A call: the operation, the object it is called on (-1 for a class
\* method or a constructor that raised), its argument and its result
\* ("ok" or the exception raised).
Call(op, o, arg, result) ==
    [op |-> op, self |-> o, arg |-> arg, result |-> result]

\* An effect of a call: what was done, on which object, with which value.
Ev(e, o, v) == [e |-> e, o |-> o, v |-> v]

Init ==
    /\ motors = <<>>
    /\ count = 0
    /\ motor_id = [o \in Objs |-> -1]
    /\ start_input = [o \in Objs |-> Zero]
    /\ max_speed = [o \in Objs |-> Zero]
    /\ has_serial = [o \in Objs |-> FALSE]
    /\ has_pwm = [o \in Objs |-> FALSE]
    /\ reset_pin = [o \in Objs |-> "unset"]
    /\ dir_pin = [o \in Objs |-> "unset"]
    /\ duty = [o \in Objs |-> 0]
    /\ detect = [o \in Objs |-> FALSE]
    /\ cleanups = 0
    /\ last = Call("none", -1, Zero, "ok")
    /\ out = <<>>
    /\ thr = [t \in Threads |-> Idle]
    /\ fault_1 = [o \in Objs |-> FALSE]
    /\ fault_2 = [o \in Objs |-> FALSE]
    /\ pending = <<>>
    /\ handler = HandlerIdle
    /\ flog = NoFaultLog
    /\ edges = 0

\* -------------------------------------------------------- reset_driver
\* Mutant: the reset line is left low.
ResetEndLevelLow == "LOW"

\* The level reset_driver() leaves the reset line at (line 298).
ResetEndLevel == "HIGH"

\* The effects of reset_driver(), in program order.
ResetPulse(o) ==
    <<Ev("reset", o, "LOW"), Ev("sleep", o, SettleMs),
      Ev("reset", o, ResetEndLevel)>>

\* ------------------------------------------------------------ __init__
\* Mutant: the capacity test is off by one.
ConstructResultOffByOne(cal) ==
    IF count > MaxMotors THEN "TooManyMotorsError"
    ELSE IF ~InUnit(cal[1]) THEN "InvalidArgError"
    ELSE IF ~InUnit(cal[2]) THEN "InvalidArgError"
    ELSE "ok"

\* Mutant: max_speed is not checked.
ConstructResultNoMaxCheck(cal) ==
    IF count = MaxMotors THEN "TooManyMotorsError"
    ELSE IF ~InUnit(cal[1]) THEN "InvalidArgError"
    ELSE "ok"

\* The checks at the head of __init__, in program order.
ConstructResult(cal) ==
    IF count = MaxMotors THEN "TooManyMotorsError"
    ELSE IF ~InUnit(cal[1]) THEN "InvalidArgError"
    ELSE IF ~InUnit(cal[2]) THEN "InvalidArgError"
    ELSE "ok"

\* Mutant: the id is the position in the registry.
NextIdFromLen == Len(motors)

\* self.motor_id = Motor._count
NextId == count

\* Motor(name, fault_1, fault_2, reset, start_input, max_speed)
Construct(cal) ==
    LET res == ConstructResult(cal)
        o == count
    IN  IF res # "ok"
        THEN /\ last' = Call("init", -1, cal, res)
             /\ out' = <<>>
             /\ UNCHANGED <<auxVars, motors, count, motor_id, start_input, max_speed,
                            has_serial, has_pwm, reset_pin, dir_pin, duty,
                            detect, cleanups>>
        ELSE /\ motor_id' = [motor_id EXCEPT ![o] = NextId]
             /\ start_input' = [start_input EXCEPT ![o] = cal[1]]
             /\ max_speed' = [max_speed EXCEPT ![o] = cal[2]]
             /\ has_serial' = [has_serial EXCEPT ![o] = FALSE]
             /\ has_pwm' = [has_pwm EXCEPT ![o] = FALSE]
             /\ detect' = [detect EXCEPT ![o] = TRUE]
             /\ reset_pin' = [reset_pin EXCEPT ![o] = ResetEndLevel]
             /\ motors' = Append(motors, o)
             /\ count' = count + 1
             /\ last' = Call("init", o, cal, "ok")
             /\ out' = <<Ev("detect", o, 1), Ev("detect", o, 2)>>
                        \o ResetPulse(o) \o <<Ev("append", o, NextId)>>
             /\ UNCHANGED <<auxVars, dir_pin, duty, cleanups>>

\* ------------------------------------------------------------ backends
\* enable_pwm(pwm, direction, frequency): DIR is driven LOW and the PWM
\* is started at duty cycle 0.
EnablePwm(o) ==
    /\ o \in Objects
    /\ has_pwm' = [has_pwm EXCEPT ![o] = TRUE]
    /\ dir_pin' = [dir_pin EXCEPT ![o] = "LOW"]
    /\ duty' = [duty EXCEPT ![o] = 0]
    /\ last' = Call("enable_pwm", o, Zero, "ok")
    /\ out' = <<Ev("dir", o, "LOW"), Ev("duty", o, 0)>>
    /\ UNCHANGED <<auxVars, motors, count, motor_id, start_input, max_speed,
                   has_serial, reset_pin, detect, cleanups>>

\* enable_serial(ser)
EnableSerial(o) ==
    /\ o \in Objects
    /\ has_serial' = [has_serial EXCEPT ![o] = TRUE]
    /\ last' = Call("enable_serial", o, Zero, "ok")
    /\ out' = <<>>
    /\ UNCHANGED <<auxVars, motors, count, motor_id, start_input, max_speed, has_pwm,
                   reset_pin, dir_pin, duty, detect, cleanups>>

\* ------------------------------------------------------------ drive
\* Mutant: PWM is tested before serial.
BackendPwmFirst(o) ==
    IF has_pwm[o] THEN "pwm"
    ELSE IF has_serial[o] THEN "serial"
    ELSE "none"

\* The branch drive() takes: serial if has_serial, else PWM if has_pwm,
\* else none.
Backend(o) ==
    IF has_serial[o] THEN "serial"
    ELSE IF has_pwm[o] THEN "pwm"
    ELSE "none"

\* Mutant: the error is logged and not raised.
NoBackendSilent(o) ==
    [result |-> "ok", out |-> <<>>, dir |-> dir_pin[o], duty |-> duty[o]]

\* The else branch of drive(): the error is logged and NoDriversError is
\* raised; nothing is output.
NoBackend(o) ==
    [result |-> "NoDriversError", out |-> <<>>,
     dir |-> dir_pin[o], duty |-> duty[o]]

\* What self.drive(speed) can do: its result, its effects in order, and
\* the DIR level and duty cycle it leaves.
DriveOutcomes(o, speed) ==
    IF Backend(o) = "serial"
    THEN {[result |-> "ok", out |-> <<Ev("serial", o, b)>>,
           dir |-> dir_pin[o], duty |-> duty[o]] :
            b \in Transmit(motor_id[o], speed, start_input[o], max_speed[o])}
    ELSE IF Backend(o) = "pwm"
    THEN {[result |-> "ok",
           out |-> <<Ev("dir", o, p.dir), Ev("duty", o, p.duty)>>,
           dir |-> p.dir, duty |-> p.duty] :
            p \in PwmDrive(speed, start_input[o], max_speed[o])}
    ELSE {NoBackend(o)}

\* drive(speed)
Drive(o, speed) ==
    /\ o \in Objects
    /\ \E d \in DriveOutcomes(o, speed) :
        /\ dir_pin' = [dir_pin EXCEPT ![o] = d.dir]
        /\ duty' = [duty EXCEPT ![o] = d.duty]
        /\ last' = Call("drive", o, speed, d.result)
        /\ out' = d.out
    /\ UNCHANGED <<auxVars, motors, count, motor_id, start_input, max_speed,
                   has_serial, has_pwm, reset_pin, detect, cleanups>>

\* reset_driver(): reset LOW, sleep(0.1), reset HIGH.
ResetDriver(o) ==
    /\ o \in Objects
    /\ reset_pin' = [reset_pin EXCEPT ![o] = ResetEndLevel]
    /\ last' = Call("reset_driver", o, Zero, "ok")
    /\ out' = ResetPulse(o)
    /\ UNCHANGED <<auxVars, motors, count, motor_id, start_input, max_speed,
                   has_serial, has_pwm, dir_pin, duty, detect, cleanups>>

\* ------------------------------------------------------------ shutdown
\* Mutant: the last motor is taken out (list.pop()).
RemoveLast(list, x) ==
    IF list = <<>> THEN list ELSE SubSeq(list, 1, Len(list) - 1)

\* Motor.motors.remove(self): the list without its first element equal to
\* x.  (When x is not in the list remove() raises and the list is as it
\* was: see RemoveResult.)
Remove(list, x) ==
    IF \A k \in 1..Len(list) : list[k] # x
    THEN list
    ELSE LET i == CHOOSE k \in 1..Len(list) :
                      list[k] = x /\ \A j \in 1..(k - 1) : list[j] # x
         IN  SubSeq(list, 1, i - 1) \o SubSeq(list, i + 1, Len(list))

\* Mutant: a missing motor is skipped without an error.
RemoveResultSilent(o) == "ok"

\* The result of Motor.motors.remove(self): list.remove raises ValueError
\* when the object is not in the list.
RemoveResult(o) == IF Registered(o) THEN "ok" ELSE "ValueError"

\* Mutant: shutdown() gives the id back to the counter.
CountAfterShutdownDecremented == IF count > 0 THEN count - 1 ELSE count

\* Motor._count after shutdown(): shutdown() does not assign it.
CountAfterShutdown == count

\* shutdown(): self.drive(0), then Motor.motors.remove(self).  An error
\* of drive(0) leaves before the removal.
Shutdown(o) ==
    /\ o \in Objects
    /\ \E d \in DriveOutcomes(o, Zero) :
        /\ dir_pin' = [dir_pin EXCEPT ![o] = d.dir]
        /\ duty' = [duty EXCEPT ![o] = d.duty]
        /\ IF d.result # "ok"
           THEN /\ last' = Call("shutdown", o, Zero, d.result)
                /\ out' = d.out
                /\ motors' = motors
           ELSE /\ last' = Call("shutdown", o, Zero, RemoveResult(o))
                /\ out' = IF RemoveResult(o) = "ok"
                          THEN Append(d.out, Ev("remove", o, motor_id[o]))
                          ELSE d.out
                /\ motors' = Remove(motors, o)
    /\ count' = CountAfterShutdown
    /\ UNCHANGED <<auxVars, motor_id, start_input, max_speed, has_serial,
                   has_pwm, reset_pin, detect, cleanups>>

\* The loop of shutdown_all(): `for motor in Motor.motors: motor.shutdown()`.
\* The list iterator holds a position i in the list it walks, and
\* shutdown() removes from that same list.  st is the state the loop has
\* built so far; the result is the set of states the loop can end in.
RECURSIVE ShutdownLoop(_, _)
ShutdownLoop(st, i) ==
    IF i > Len(st.motors)
    THEN {st}
    ELSE LET o == st.motors[i]
         IN  UNION {
                 IF d.result # "ok"
                 THEN {[st EXCEPT !.result = d.result,
                                  !.out = @ \o d.out]}
                 ELSE ShutdownLoop(
                          [motors |-> Remove(st.motors, o),
                           dir |-> [st.dir EXCEPT ![o] = d.dir],
                           duty |-> [st.duty EXCEPT ![o] = d.duty],
                           out |-> st.out \o d.out
                                       \o <<Ev("remove", o, motor_id[o])>>,
                           result |-> "ok"],
                          i + 1) :
                 d \in DriveOutcomes(o, Zero)}

\* shutdown_all(): the loop, then gpio.cleanup(), which returns every
\* channel to its unconfigured state and drops the fault callbacks.  An
\* error raised in the loop leaves before gpio.cleanup().
ShutdownAll ==
    /\ cleanups < MaxCleanups
    /\ \E st \in ShutdownLoop([motors |-> motors, dir |-> dir_pin,
                               duty |-> duty, out |-> <<>>,
                               result |-> "ok"], 1) :
        /\ motors' = st.motors
        /\ duty' = st.duty
        /\ last' = Call("shutdown_all", -1, Zero, st.result)
        /\ IF st.result = "ok"
           THEN /\ out' = Append(st.out, Ev("cleanup", -1, 0))
                /\ cleanups' = cleanups + 1
                /\ dir_pin' = [o \in Objs |-> "unset"]
                /\ reset_pin' = [o \in Objs |-> "unset"]
                /\ detect' = [o \in Objs |-> FALSE]
           ELSE /\ out' = st.out
                /\ dir_pin' = st.dir
                /\ UNCHANGED <<cleanups, reset_pin, detect>>
    /\ UNCHANGED <<auxVars, count, motor_id, start_input, max_speed, has_serial,
                   has_pwm>>

\* ------------------------------------------------------------ specifications
\* The registry: constructions, shutdown() and shutdown_all() of up to
\* MaxMotors motors from one command context, with the serial backend.
Next ==
    \/ \E cal \in Calibrations : Construct(cal)
    \/ \E o \in Objs : EnableSerial(o)
    \/ \E o \in Objs : Shutdown(o)
    \/ ShutdownAll

Spec == Init /\ [][Next]_vars

\* The drive path: up to MaxDriveMotors motors, both backends.
DriveNext ==
    \/ \E cal \in Calibrations : count < MaxDriveMotors /\ Construct(cal)
    \/ \E o \in Objs : EnablePwm(o)
    \/ \E o \in Objs : EnableSerial(o)
    \/ \E o \in Objs, speed \in DriveSpeeds : Drive(o, speed)
    \/ \E o \in Objs : ResetDriver(o)
    \/ \E o \in Objs : Shutdown(o)

DriveSpec == Init /\ [][DriveNext]_vars

\* The scaler and the codec on the grid: n motors have been constructed
\* with a calibration of the grid and given one backend; the last one is
\* driven at the speeds of the grid.
CodecInit ==
    \E n \in 1..MaxMotors, a \in GridUnit, m \in GridUnit,
       b \in {"serial", "pwm"} :
        /\ motors = [i \in 1..n |-> i - 1]
        /\ count = n
        /\ motor_id = [o \in Objs |-> IF o < n THEN o ELSE -1]
        /\ start_input = [o \in Objs |-> IF o < n THEN a ELSE Zero]
        /\ max_speed = [o \in Objs |-> IF o < n THEN m ELSE Zero]
        /\ has_serial = [o \in Objs |-> o < n /\ b = "serial"]
        /\ has_pwm = [o \in Objs |-> o < n /\ b = "pwm"]
        /\ reset_pin = [o \in Objs |-> IF o < n THEN "HIGH" ELSE "unset"]
        /\ dir_pin = [o \in Objs |->
                        IF o < n /\ b = "pwm" THEN "LOW" ELSE "unset"]
        /\ duty = [o \in Objs |-> 0]
        /\ detect = [o \in Objs |-> o < n]
        /\ cleanups = 0
        /\ last = IF b = "pwm"
                  THEN Call("enable_pwm", n - 1, Zero, "ok")
                  ELSE Call("enable_serial", n - 1, Zero, "ok")
        /\ out = IF b = "pwm"
                 THEN <<Ev("dir", n - 1, "LOW"), Ev("duty", n - 1, 0)>>
                 ELSE <<>>
        /\ thr = [t \in Threads |-> Idle]
        /\ fault_1 = [o \in Objs |-> FALSE]
        /\ fault_2 = [o \in Objs |-> FALSE]
        /\ pending = <<>>
        /\ handler = HandlerIdle
        /\ flog = NoFaultLog
        /\ edges = 0

CodecNext == \E speed \in GridSpeeds : Drive(count - 1, speed)

CodecSpec == CodecInit /\ [][CodecNext]_vars

\* ------------------------------------------------ calls, step by step
\* The same calls as above, cut where another thread (or the callback
\* thread) can run in between: there is no lock anywhere in the class.
\* A thread keeps the effects of its call in thr[t].out and publishes
\* them in out, with the call's record in last, when the call returns.

\* The objects no constructor has been started on.
FreeObjs == {o \in Objs : motor_id[o] = -1}

\* The object a new Motor is built on: the first free one.
NewObj == CHOOSE o \in FreeObjs : \A p \in FreeObjs : o <= p

\* __init__, lines 102-107: the capacity test and the range tests.
InitBegin(t, cal) ==
    /\ thr[t].pc = "idle"
    /\ IF ConstructResult(cal) # "ok"
       THEN /\ last' = Call("init", -1, cal, ConstructResult(cal))
            /\ out' = <<>>
            /\ thr' = thr
       ELSE /\ thr' = [thr EXCEPT ![t] = [pc |-> "init_assign", self |-> -1,
                                          cal |-> cal, tmp |-> 0,
                                          ret |-> "init_append",
                                          out |-> <<>>]]
            /\ UNCHANGED <<last, out>>
    /\ UNCHANGED <<progState, faultVars>>

\* __init__, lines 109-119: the fields; motor_id is a second read of
\* Motor._count.
InitAssign(t) ==
    /\ thr[t].pc = "init_assign"
    /\ thr[t].ret = "init_append"
    /\ FreeObjs # {}
    /\ LET o == NewObj
       IN  /\ motor_id' = [motor_id EXCEPT ![o] = NextId]
           /\ start_input' = [start_input EXCEPT ![o] = thr[t].cal[1]]
           /\ max_speed' = [max_speed EXCEPT ![o] = thr[t].cal[2]]
           /\ has_serial' = [has_serial EXCEPT ![o] = FALSE]
           /\ has_pwm' = [has_pwm EXCEPT ![o] = FALSE]
           /\ thr' = [thr EXCEPT ![t].pc = "init_detect", ![t].self = o]
    /\ UNCHANGED <<motors, count, reset_pin, dir_pin, duty, detect,
                   cleanups, last, out, faultVars>>

\* __init__, lines 121-128: the fault callbacks and the reset pin.
InitDetect(t) ==
    /\ thr[t].pc = "init_detect"
    /\ LET o == thr[t].self
       IN  /\ detect' = [detect EXCEPT ![o] = TRUE]
           /\ thr' = [thr EXCEPT ![t].pc = "reset_low",
                                 ![t].out = <<Ev("detect", o, 1),
                                              Ev("detect", o, 2)>>]
    /\ UNCHANGED <<motors, count, motor_id, start_input, max_speed,
                   has_serial, has_pwm, reset_pin, dir_pin, duty, cleanups,
                   last, out, faultVars>>

\* A call of reset_driver() from outside the constructor.
ResetBegin(t, o) ==
    /\ thr[t].pc = "idle"
    /\ o \in Objects
    /\ thr' = [thr EXCEPT ![t] = [pc |-> "reset_low", self |-> o,
                                  cal |-> <<Zero, Zero>>, tmp |-> 0,
                                  ret |-> "idle", out |-> <<>>]]
    /\ UNCHANGED <<progState, last, out, faultVars>>

\* reset_driver(), line 296
ResetLow(t) ==
    /\ thr[t].pc = "reset_low"
    /\ LET o == thr[t].self
       IN  /\ reset_pin' = [reset_pin EXCEPT ![o] = "LOW"]
           /\ thr' = [thr EXCEPT ![t].pc = "reset_sleep",
                                 ![t].out = Append(@, ResetPulse(o)[1])]
    /\ UNCHANGED <<motors, count, motor_id, start_input, max_speed,
                   has_serial, has_pwm, dir_pin, duty, detect, cleanups,
                   last, out, faultVars>>

\* reset_driver(), line 297
ResetSleep(t) ==
    /\ thr[t].pc = "reset_sleep"
    /\ thr' = [thr EXCEPT ![t].pc = "reset_high",
                          ![t].out = Append(@, ResetPulse(thr[t].self)[2])]
    /\ UNCHANGED <<progState, last, out, faultVars>>

\* reset_driver(), line 298, and the return: to the caller, or to line
\* 132 of the constructor.
ResetHigh(t) ==
    /\ thr[t].pc = "reset_high"
    /\ LET o == thr[t].self
           done == Append(thr[t].out, ResetPulse(o)[3])
       IN  /\ reset_pin' = [reset_pin EXCEPT ![o] = ResetEndLevel]
           /\ IF thr[t].ret = "idle"
              THEN /\ last' = Call("reset_driver", o, Zero, "ok")
                   /\ out' = done
                   /\ thr' = [thr EXCEPT ![t] = Idle]
              ELSE /\ thr' = [thr EXCEPT ![t].pc = thr[t].ret,
                                         ![t].out = done]
                   /\ UNCHANGED <<last, out>>
    /\ UNCHANGED <<motors, count, motor_id, start_input, max_speed,
                   has_serial, has_pwm, dir_pin, duty, detect, cleanups,
                   faultVars>>

\* __init__, line 132
InitAppend(t) ==
    /\ thr[t].pc = "init_append"
    /\ LET o == thr[t].self
       IN  /\ motors' = Append(motors, o)
           /\ thr' = [thr EXCEPT ![t].pc = "init_count_read",
                                 ![t].out = Append(@, Ev("append", o,
                                                         motor_id[o]))]
    /\ UNCHANGED <<count, motor_id, start_input, max_speed, has_serial,
                   has_pwm, reset_pin, dir_pin, duty, detect, cleanups,
                   last, out, faultVars>>

\* __init__, line 134: `Motor._count += 1` reads the counter ...
InitCountRead(t) ==
    /\ thr[t].pc = "init_count_read"
    /\ thr' = [thr EXCEPT ![t].pc = "init_count_write", ![t].tmp = count]
    /\ UNCHANGED <<progState, last, out, faultVars>>

\* ... and then stores the value read plus one; the constructor returns.
InitCountWrite(t) ==
    /\ thr[t].pc = "init_count_write"
    /\ count' = thr[t].tmp + 1
    /\ last' = Call("init", thr[t].self, thr[t].cal, "ok")
    /\ out' = thr[t].out
    /\ thr' = [thr EXCEPT ![t] = Idle]
    /\ UNCHANGED <<motors, motor_id, start_input, max_speed, has_serial,
                   has_pwm, reset_pin, dir_pin, duty, detect, cleanups,
                   faultVars>>

\* shutdown(), line 304: self.drive(0).  An error leaves the call.
ShutdownBegin(t, o) ==
    /\ thr[t].pc = "idle"
    /\ o \in Objects
    /\ \E d \in DriveOutcomes(o, Zero) :
        /\ dir_pin' = [dir_pin EXCEPT ![o] = d.dir]
        /\ duty' = [duty EXCEPT ![o] = d.duty]
        /\ IF d.result # "ok"
           THEN /\ last' = Call("shutdown", o, Zero, d.result)
                /\ out' = d.out
                /\ thr' = thr
           ELSE /\ thr' = [thr EXCEPT ![t] = [pc |-> "shutdown_remove",
                                              self |-> o,
                                              cal |-> <<Zero, Zero>>,
                                              tmp |-> 0, ret |-> "idle",
                                              out |-> d.out]]
                /\ UNCHANGED <<last, out>>
    /\ UNCHANGED <<motors, count, motor_id, start_input, max_speed,
                   has_serial, has_pwm, reset_pin, detect, cleanups,
                   faultVars>>

\* shutdown(), line 307: Motor.motors.remove(self), and the return.
ShutdownRemove(t) ==
    /\ thr[t].pc = "shutdown_remove"
    /\ LET o == thr[t].self
       IN  /\ last' = Call("shutdown", o, Zero, RemoveResult(o))
           /\ out' = IF RemoveResult(o) = "ok"
                     THEN Append(thr[t].out, Ev("remove", o, motor_id[o]))
                     ELSE thr[t].out
           /\ motors' = Remove(motors, o)
    /\ count' = CountAfterShutdown
    /\ thr' = [thr EXCEPT ![t] = Idle]
    /\ UNCHANGED <<motor_id, start_input, max_speed, has_serial, has_pwm,
                   reset_pin, dir_pin, duty, detect, cleanups, faultVars>>

\* A call that is one step: the thread is between two calls.
Between(t) == thr[t].pc = "idle"

\* The steps a thread takes inside a call.
CallStep(t) ==
    \/ InitAssign(t)
    \/ InitDetect(t)
    \/ ResetLow(t)
    \/ ResetSleep(t)
    \/ ResetHigh(t)
    \/ InitAppend(t)
    \/ InitCountRead(t)
    \/ InitCountWrite(t)
    \/ ShutdownRemove(t)

\* The calibration a constructor called without one gets (line 101).
DefaultCal == <<Zero, <<1, 1>>>>

\* One thread; the reset pulse and the constructor step by step.
StepNext ==
    \/ InitBegin("main", DefaultCal)
    \/ CallStep("main")
    \/ \E o \in Objs : ResetBegin("main", o)
    \/ \E o \in Objs : Between("main") /\ EnableSerial(o)
    \/ \E o \in Objs : ShutdownBegin("main", o)
    \/ Between("main") /\ ShutdownAll

StepSpec == Init /\ [][StepNext]_vars

\* The constructions begun so far: those that have their object, and
\* those about to take one.
Begun ==
    Cardinality(Objs \ FreeObjs)
        + Cardinality({t \in Threads : thr[t].pc = "init_assign"})

\* Two threads, each constructing and shutting down motors; the program
\* constructs at most MaxRaceMotors motors.
RaceNext ==
    \/ \E t \in Threads : Begun < MaxRaceMotors /\ InitBegin(t, DefaultCal)
    \/ \E t \in Threads : CallStep(t)
    \/ \E t \in Threads, o \in Objs : Between(t) /\ EnableSerial(o)
    \/ \E t \in Threads, o \in Objs : ShutdownBegin(t, o)

RaceSpec == Init /\ [][RaceNext]_vars

\* ------------------------------------------------------- _catch_fault
\* The levels of the fault lines of o: (fault_1, fault_2).
Levels(o) == <<fault_1[o], fault_2[o]>>

\* A fault line of a motor changes level: the driver raises or clears a
\* flag.  A rising edge on a pin with an event detect (lines 124-125)
\* queues a call of _catch_fault(channel); RPi.GPIO runs the callbacks
\* one after the other in its own thread.  While the callback of that
\* motor runs, the pairs of levels that occur are remembered in held.
LineChange(o, channel) ==
    /\ edges < MaxEdges
    /\ motor_id[o] # -1
    /\ LET f1 == IF channel = 1 THEN ~fault_1[o] ELSE fault_1[o]
           f2 == IF channel = 2 THEN ~fault_2[o] ELSE fault_2[o]
           rising == IF channel = 1 THEN f1 ELSE f2
       IN  /\ fault_1' = [fault_1 EXCEPT ![o] = f1]
           /\ fault_2' = [fault_2 EXCEPT ![o] = f2]
           /\ pending' = IF rising /\ detect[o]
                         THEN Append(pending, [self |-> o,
                                               channel |-> channel,
                                               at |-> <<f1, f2>>])
                         ELSE pending
           /\ handler' = IF handler.pc # "idle" /\ handler.self = o
                         THEN [handler EXCEPT !.held = @ \cup {<<f1, f2>>}]
                         ELSE handler
    /\ edges' = edges + 1
    /\ UNCHANGED <<progState, last, out, thr, flog>>

\* The callback thread enters _catch_fault for the oldest pending edge.
HandlerStart ==
    /\ handler.pc = "idle"
    /\ pending # <<>>
    /\ handler' = [pc |-> "if1", self |-> Head(pending).self,
                   channel |-> Head(pending).channel,
                   at |-> Head(pending).at,
                   held |-> {Levels(Head(pending).self)}]
    /\ pending' = Tail(pending)
    /\ UNCHANGED <<progState, last, out, thr, fault_1, fault_2, flog, edges>>

\* The four gpio.input() calls of lines 186-190, in the order in which
\* `and` and `elif` evaluate them: which pin each one reads ...
ReadPin(pc) == IF pc \in {"if1", "if3"} THEN 1 ELSE 2

\* ... and where the handler goes with the level read: to the next
\* read, to the warning of its branch ("log"), or to the end.
AfterRead(pc, level) ==
    IF pc = "if1" THEN (IF level THEN "if2" ELSE "if3")
    ELSE IF pc = "if2" THEN (IF level THEN "log" ELSE "if3")
    ELSE IF pc = "if3" THEN (IF level THEN "log" ELSE "if4")
    ELSE (IF level THEN "log" ELSE "end")

\* Mutant: the warnings of the two elif branches are exchanged.
FaultTagSwapped(pc) ==
    IF pc = "if2" THEN "Undervolt"
    ELSE IF pc = "if3" THEN "ShortCircuitLatched"
    ELSE "Overtemp"

\* The warning logged by the branch whose test succeeded at pc.
FaultTag(pc) ==
    IF pc = "if2" THEN "Undervolt"
    ELSE IF pc = "if3" THEN "Overtemp"
    ELSE "ShortCircuitLatched"

\* Mutant: on a short circuit the handler pulls the reset line low.
HandlerOutputsReset(o, tag) ==
    IF tag = "ShortCircuitLatched" THEN <<Ev("reset", o, "LOW")>> ELSE <<>>

\* The gpio outputs _catch_fault makes after logging tag: none.
HandlerOutputs(o, tag) == <<>>

\* One gpio.input() of _catch_fault, with what follows it up to the
\* next one: a warning, the return, or nothing.
HandlerRead ==
    /\ handler.pc \in {"if1", "if2", "if3", "if4"}
    /\ LET o == handler.self
           level == Levels(o)[ReadPin(handler.pc)]
           to == AfterRead(handler.pc, level)
           tags == IF to = "log" THEN <<FaultTag(handler.pc)>> ELSE <<>>
           outs == IF to = "log"
                   THEN HandlerOutputs(o, FaultTag(handler.pc))
                   ELSE <<>>
       IN  /\ IF to \in {"log", "end"}
              THEN /\ flog' = [self |-> o, channel |-> handler.channel,
                               tags |-> tags, at |-> handler.at,
                               held |-> handler.held]
                   /\ handler' = HandlerIdle
              ELSE /\ handler' = [handler EXCEPT !.pc = to]
                   /\ flog' = flog
           /\ reset_pin' = IF outs = <<>> THEN reset_pin
                           ELSE [reset_pin EXCEPT ![o] = outs[Len(outs)].v]
    /\ UNCHANGED <<motors, count, motor_id, start_input, max_speed,
                   has_serial, has_pwm, dir_pin, duty, detect, cleanups,
                   last, out, thr, fault_1, fault_2, pending, edges>>

\* One caller constructing, driving (software PWM, forward at half
\* speed) and shutting down at most MaxFaultMotors motors, the fault
\* lines, and the callback thread.
FaultNext ==
    \/ count < MaxFaultMotors /\ InitBegin("main", DefaultCal)
    \/ CallStep("main")
    \/ \E o \in Objs : Between("main") /\ EnablePwm(o)
    \/ \E o \in Objs : Between("main") /\ Drive(o, <<1, 2>>)
    \/ \E o \in Objs : ShutdownBegin("main", o)
    \/ \E o \in Objs, channel \in {1, 2} : LineChange(o, channel)
    \/ HandlerStart
    \/ HandlerRead

FaultSpec == Init /\ [][FaultNext]_vars

\* ------------------------------------------------------------ properties
ValidCal(cal) == InUnit(cal[1]) /\ InUnit(cal[2])

\* q = r for fractions.
EqFrac(q, r) == Num(q) * Den(r) = Num(r) * Den(q)

\* The effects log holds a zero-speed command to object o: a serial byte
\* with speed field 0, or a PWM duty cycle of 0.
ZeroCommanded(log, o) ==
    \E k \in 1..Len(log) :
        /\ log[k].o = o
        /\ \/ log[k].e = "serial" /\ ByteSpeed(log[k].v) = 0
           \/ log[k].e = "duty" /\ log[k].v = 0

\* The number of effects e in a log.
CountEv(log, e) == Cardinality({k \in 1..Len(log) : log[k].e = e})

\* C1: when a shutdown() has just deregistered one of four live motors, a
\* construction with valid arguments that follows succeeds.
C1_ConstructAfterShutdownSucceeds ==
    [][(/\ last.op = "shutdown" /\ last.result = "ok"
        /\ Len(motors) = MaxMotors - 1
        /\ last'.op = "init" /\ ValidCal(last'.arg))
       => last'.result = "ok"]_vars

\* C2: shutdown_all() with every registered motor having a backend
\* returns normally, has commanded each of those motors to speed 0, leaves
\* Motor.motors empty and calls gpio.cleanup() exactly once, as its last
\* effect.
C2_ShutdownAllEmptiesRegistry ==
    [][(/\ last'.op = "shutdown_all"
        /\ \A o \in Live : Backend(o) # "none")
       => (/\ last'.result = "ok"
           /\ \A o \in Live : ZeroCommanded(out', o)
           /\ motors' = <<>>
           /\ cleanups' = cleanups + 1
           /\ CountEv(out', "cleanup") = 1
           /\ out'[Len(out')].e = "cleanup")]_vars

\* C3: a construction while 4 motors are registered raises
\* TooManyMotorsError and changes nothing but the call record; the
\* registry never holds more than 4 motors.
C3_CapacityRejected ==
    /\ [](Len(motors) <= 4)
    /\ [][(Len(motors) = 4 /\ last'.op = "init")
          => (/\ last'.result = "TooManyMotorsError"
              /\ out' = <<>>
              /\ UNCHANGED progState)]_vars

C3_Witness ==
    /\ last.op = "init" /\ last.result = "TooManyMotorsError"
    /\ Len(motors) = 4

\* C4: every registered motor has a motor_id in 0..3 and no two
\* registered motors share a motor_id.
C4_UniqueIds ==
    \A i, j \in 1..Len(motors) :
        /\ motor_id[motors[i]] \in 0..3
        /\ i # j => motor_id[motors[i]] # motor_id[motors[j]]

\* Two motors are registered after a shutdown and a later construction.
C4_Witness ==
    /\ Len(motors) >= 2
    /\ \E o \in Objects : ~Registered(o) /\ \E p \in Live : p > o

\* C5: on a motor with has_serial and has_pwm both set, drive(speed)
\* writes exactly one byte to the serial connection and nothing else, and
\* leaves every duty cycle and DIR level as it was.
C5_SerialPriority ==
    [][(/\ last'.op = "drive"
        /\ has_serial[last'.self] /\ has_pwm[last'.self])
       => (/\ last'.result = "ok"
           /\ Len(out') = 1
           /\ out'[1].e = "serial" /\ out'[1].o = last'.self
           /\ out'[1].v \in 0..255
           /\ duty' = duty
           /\ dir_pin' = dir_pin)]_vars

\* A reverse drive on a motor with both backends whose PWM output still
\* holds the forward duty cycle of an earlier PWM drive.
C5_Witness ==
    /\ last.op = "drive" /\ last.result = "ok" /\ Num(last.arg) # 0
    /\ has_serial[last.self] /\ has_pwm[last.self]
    /\ Len(out) = 1 /\ out[1].e = "serial"
    /\ IsNeg(last.arg)
    /\ duty[last.self] > 0 /\ dir_pin[last.self] = "HIGH"

\* C6: drive(speed) on a motor with neither backend raises NoDriversError,
\* has no effect on the serial link or the pins, and leaves the registry,
\* the counter and the backend flags as they were.
C6_NoDrivers ==
    [][(last'.op = "drive" /\ Backend(last'.self) = "none")
       => (/\ last'.result = "NoDriversError"
           /\ out' = <<>>
           /\ UNCHANGED progState
           /\ Registered(last'.self)
                  => \E i \in 1..Len(motors') : motors'[i] = last'.self)]_vars

C6_Witness ==
    /\ last.op = "drive" /\ last.result = "NoDriversError"
    /\ Registered(last.self)

\* C7: shutdown() on a registered motor with a backend returns normally;
\* its effects are a zero-speed command through the active backend and
\* then, last, the removal; afterwards that motor is out of the registry
\* and the others are registered as before, in order, with their ids.
C7_ShutdownOrder ==
    [][(/\ last'.op = "shutdown"
        /\ Registered(last'.self) /\ Backend(last'.self) # "none")
       => LET o == last'.self
              n == Len(out')
          IN  /\ last'.result = "ok"
              /\ n >= 2
              /\ out'[n] = Ev("remove", o, motor_id[o])
              /\ \A k \in 1..(n - 1) :
                    /\ out'[k].o = o
                    /\ out'[k].e = IF Backend(o) = "serial" THEN "serial"
                                   ELSE IF k = 1 THEN "dir" ELSE "duty"
              /\ ZeroCommanded(SubSeq(out', 1, n - 1), o)
              /\ motors' = SelectSeq(motors, LAMBDA p : p # o)
              /\ Len(motors') = Len(motors) - 1
              /\ motor_id' = motor_id]_vars

\* A shutdown that leaves another motor registered.
C7_Witness ==
    /\ last.op = "shutdown" /\ last.result = "ok"
    /\ Len(motors) >= 1 /\ motors[1] > last.self
    /\ out[Len(out)].e = "remove"

\* C8: shutdown() on a motor that is not in the registry raises an error
\* and leaves the registry as it was.
C8_ShutdownUnknown ==
    [][(last'.op = "shutdown" /\ ~Registered(last'.self))
       => (/\ last'.result \in {"ValueError", "NoDriversError"}
           /\ CountEv(out', "remove") = 0
           /\ motors' = motors)]_vars

\* A second shutdown() of a motor with a backend.
C8_Witness ==
    /\ last.op = "shutdown" /\ last.result = "ValueError"
    /\ ~Registered(last.self) /\ Backend(last.self) # "none"

\* The scenario of C9: start_input = 0.2, max_speed = 0.8, drive(-1.0)
\* through the serial backend.
C9_Scenario ==
    /\ last.op = "drive" /\ Backend(last.self) = "serial"
    /\ EqFrac(start_input[last.self], <<1, 5>>)
    /\ EqFrac(max_speed[last.self], <<4, 5>>)
    /\ EqFrac(last.arg, <<-1, 1>>)

\* C9 as stated: the speed field of the byte of a serial drive is
\* |scale(speed)| * 31 rounded to the nearest integer and lies in 0..31;
\* in the scenario it is 25 and the sign bit is set.
C9_MagnitudeRounded ==
    (last.op = "drive" /\ Backend(last.self) = "serial")
    => LET o == last.self
           f == ByteSpeed(out[1].v)
       IN  /\ f \in 0..31
           /\ \E s \in ScaleSpeed(last.arg, start_input[o], max_speed[o]) :
                 /\ 2 * f * Ticks - Ticks <= 2 * Abs(s) * 31
                 /\ 2 * Abs(s) * 31 <= 2 * f * Ticks + Ticks
           /\ C9_Scenario => (f = 25 /\ ByteNegative(out[1].v) = 1)

\* C9 amended: the speed field is |scale(speed)| * 31 with the fraction
\* dropped and lies in 0..31; in the scenario it is 24 and the sign bit is
\* set.
C9_MagnitudeTruncated ==
    (last.op = "drive" /\ Backend(last.self) = "serial")
    => LET o == last.self
           f == ByteSpeed(out[1].v)
       IN  /\ f \in 0..31
           /\ \E s \in ScaleSpeed(last.arg, start_input[o], max_speed[o]) :
                 /\ f * Ticks <= Abs(s) * 31
                 /\ Abs(s) * 31 < (f + 1) * Ticks
           /\ C9_Scenario => (f = 24 /\ ByteNegative(out[1].v) = 1)

C9_Witness ==
    /\ C9_Scenario
    /\ ByteSpeed(out[1].v) = 24 /\ ByteNegative(out[1].v) = 1

\* C10 as stated, for the speed of the last drive and the calibration of
\* its motor: scale(0) = 0; for a nonzero speed the result is nonzero and
\* has the sign of the speed; |scale(speed)| <= max_speed.
C10_ScaleSignAndBound ==
    last.op = "drive"
    => LET o == last.self
       IN  \A s \in ScaleSpeed(last.arg, start_input[o], max_speed[o]) :
              /\ Num(last.arg) = 0 => s = 0
              /\ Num(last.arg) # 0 => Sign(s) = Sign(Num(last.arg))
              /\ Abs(s) * Den(max_speed[o]) <= Num(max_speed[o]) * Ticks

\* C10 amended: scale(0) = 0; for a nonzero speed the result is never of
\* the opposite sign, and it is 0 only when the unrounded magnitude
\* |remapped speed| * max_speed is at most 0.00005 (as it is when
\* max_speed = 0); |scale(speed)| <= max_speed + 0.00005, the bound
\* max_speed rounded to 4 decimal digits.
C10_ScaleSignAndBoundRounded ==
    last.op = "drive"
    => LET o == last.self
           a == start_input[o]
           m == max_speed[o]
           x == last.arg
           \* |remapped speed| as a fraction: the remap by hand
           rn == Abs(Num(x)) * (Den(a) - Num(a)) + Num(a) * Den(x)
           rd == Den(x) * Den(a)
       IN  \A s \in ScaleSpeed(x, a, m) :
              /\ Num(x) = 0 => s = 0
              /\ Num(x) # 0 => Sign(s) \in {0, Sign(Num(x))}
              /\ (Num(x) # 0 /\ s = 0)
                    => 2 * Ticks * rn * Num(m) <= rd * Den(m)
              /\ 2 * Abs(s) * Den(m) <= 2 * Num(m) * Ticks + Den(m)

\* A reverse drive with a dead zone whose scaled speed is negative, and
\* one with max_speed = 0 whose scaled speed is 0.
C10_Witness ==
    /\ last.op = "drive" /\ IsNeg(last.arg)
    /\ Backend(last.self) = "pwm"
    /\ Num(start_input[last.self]) > 0
    /\ Num(max_speed[last.self]) > 0
    /\ dir_pin[last.self] = "LOW" /\ duty[last.self] > 0

\* C11: the byte of a serial drive decodes to the motor's motor_id, to a
\* sign bit that is 1 exactly when the requested speed is < 0, and to a
\* magnitude field f with |f/31 - |scale(speed)|| <= 1/31.
C11_RoundTrip ==
    (last.op = "drive" /\ Backend(last.self) = "serial")
    => LET o == last.self
           b == out[1].v
       IN  /\ b \in 0..255
           /\ ByteMotorId(b) = motor_id[o]
           /\ ByteNegative(b) = 1 <=> IsNeg(last.arg)
           /\ ByteNegative(b) \in {0, 1}
           /\ \E s \in ScaleSpeed(last.arg, start_input[o], max_speed[o]) :
                 Abs(ByteSpeed(b) * Ticks - Abs(s) * 31) <= Ticks

\* A reverse drive of the motor with id 3 with a nonzero magnitude.
C11_Witness ==
    /\ last.op = "drive" /\ Backend(last.self) = "serial"
    /\ motor_id[last.self] = 3 /\ IsNeg(last.arg)
    /\ ByteMotorId(out[1].v) = 3 /\ ByteSpeed(out[1].v) > 0

\* The scenario of C13: start_input = 0.2, max_speed = 0.8, drive(0.5)
\* through the PWM backend.
C13_Scenario ==
    /\ last.op = "drive" /\ Backend(last.self) = "pwm"
    /\ EqFrac(start_input[last.self], <<1, 5>>)
    /\ EqFrac(max_speed[last.self], <<4, 5>>)
    /\ EqFrac(last.arg, <<1, 2>>)

C14_InvalidArgs ==
    /\ [][(last'.op = "init" /\ ~ValidCal(last'.arg))
          => (/\ last'.result = "InvalidArgError"
              /\ out' = <<>>
              /\ UNCHANGED progState)]_vars
    /\ [](\A o \in Objects : InUnit(start_input[o]) /\ InUnit(max_speed[o]))
    /\ []((last.op = "init" /\ last.result = "ok")
            => (/\ start_input[last.self] = last.arg[1]
                /\ max_speed[last.self] = last.arg[2]))

\* C14 amended: such a construction raises InvalidArgError, or
\* TooManyMotorsError when Motor._count is 4 (that test comes first); the
\* rest as stated.
C14_InvalidArgsOrFull ==
    /\ [][(last'.op = "init" /\ ~ValidCal(last'.arg))
          => (/\ last'.result = IF count = 4 THEN "TooManyMotorsError"
                                ELSE "InvalidArgError"
              /\ out' = <<>>
              /\ UNCHANGED progState)]_vars
    /\ [](\A o \in Objects : InUnit(start_input[o]) /\ InUnit(max_speed[o]))
    /\ []((last.op = "init" /\ last.result = "ok")
            => (/\ start_input[last.self] = last.arg[1]
                /\ max_speed[last.self] = last.arg[2]))

\* A construction with max_speed outside [0,1] rejected while motors are
\* registered.
C14_Witness ==
    /\ last.op = "init" /\ last.result = "InvalidArgError"
    /\ InUnit(last.arg[1]) /\ ~InUnit(last.arg[2])
    /\ Len(motors) >= 1

\* C19: Motor._count never decreases, and shutdown() and shutdown_all()
\* leave it as it is; it is the number of constructions that succeeded,
\* at least the number of registered motors, and at most 4.
C19_CounterMonotonic ==
    /\ [][/\ count' >= count
          /\ last'.op \in {"shutdown", "shutdown_all"} => count' = count
          /\ count' # count
                => (/\ last'.op = "init" /\ last'.result = "ok"
                    /\ count' = count + 1)]_vars
    /\ [](/\ count = Cardinality({o \in Objs : motor_id[o] # -1})
          /\ count >= Len(motors)
          /\ count <= 4)

\* Four constructions have succeeded and a shutdown has left fewer
\* motors registered.
C19_Witness ==
    /\ count = 4 /\ Len(motors) < 4
    /\ last.op = "shutdown" /\ last.result = "ok"

\* C20: shutdown() on a registered motor with no backend raises
\* NoDriversError with no effect, and the registry is as it was;
\* shutdown_all() raises NoDriversError when the first motor of the
\* registry has no backend, and whenever it raises it, gpio.cleanup() has
\* not been called and a motor with no backend is still registered.
C20_ShutdownNoBackend ==
    /\ [][(/\ last'.op = "shutdown"
           /\ Registered(last'.self) /\ Backend(last'.self) = "none")
          => (/\ last'.result = "NoDriversError"
              /\ out' = <<>>
              /\ UNCHANGED progState)]_vars
    /\ [][last'.op = "shutdown_all"
          => (/\ (motors # <<>> /\ Backend(motors[1]) = "none")
                    => (last'.result = "NoDriversError" /\ motors' = motors)
              /\ last'.result = "NoDriversError"
                    => (/\ cleanups' = cleanups
                        /\ CountEv(out', "cleanup") = 0
                        /\ UNCHANGED <<reset_pin, detect>>
                        /\ \E i \in 1..Len(motors') :
                              /\ Backend(motors'[i]) = "none"
                              /\ \E j \in 1..Len(motors) :
                                    motors[j] = motors'[i])
              /\ last'.result \in {"ok", "NoDriversError"})]_vars

\* shutdown_all() has stopped at a motor with no backend after it shut
\* an earlier motor down.
C20_Witness ==
    /\ last.op = "shutdown_all" /\ last.result = "NoDriversError"
    /\ CountEv(out, "remove") >= 1
    /\ cleanups = 0

\* reset_driver() is running on o, in whichever thread.
ResetRunning(o) ==
    \E t \in Threads : /\ thr[t].self = o
                       /\ thr[t].pc \in {"reset_low", "reset_sleep",
                                         "reset_high"}

\* reset_driver() has returned at least once on o: its constructor is
\* past line 129.
ResetHasRun(o) ==
    /\ motor_id[o] # -1
    /\ \A t \in Threads :
        ~(InInit(t) /\ thr[t].self = o
          /\ thr[t].pc \in {"init_detect", "reset_low", "reset_sleep",
                            "reset_high"})

\* The log ends with the events evs.
EndsWith(log, evs) ==
    /\ Len(log) >= Len(evs)
    /\ SubSeq(log, Len(log) - Len(evs) + 1, Len(log)) = evs

\* reset_driver() is LOW, then the settle delay, then HIGH, and nothing
\* leaves it in between.
C18_PulseOrder ==
    /\ [](\A t \in Threads :
            /\ thr[t].pc = "reset_sleep" =>
                /\ reset_pin[thr[t].self] = "LOW"
                /\ EndsWith(thr[t].out, <<Ev("reset", thr[t].self, "LOW")>>)
            /\ thr[t].pc = "reset_high" =>
                /\ reset_pin[thr[t].self] = "LOW"
                /\ EndsWith(thr[t].out,
                            <<Ev("reset", thr[t].self, "LOW"),
                              Ev("sleep", thr[t].self, SettleMs)>>))
    /\ [](last.op = "reset_driver" =>
            /\ last.result = "ok"
            /\ out = <<Ev("reset", last.self, "LOW"),
                       Ev("sleep", last.self, SettleMs),
                       Ev("reset", last.self, "HIGH")>>)
    /\ [][\A t \in Threads :
            /\ thr[t].pc = "reset_low" /\ thr'[t] # thr[t]
                => thr'[t].pc = "reset_sleep"
            /\ thr[t].pc = "reset_sleep" /\ thr'[t] # thr[t]
                => thr'[t].pc = "reset_high"
            /\ thr[t].pc = "reset_high" /\ thr'[t] # thr[t]
                => /\ thr'[t].pc = thr[t].ret
                   /\ reset_pin'[thr[t].self] = "HIGH"]_vars

\* In the constructor the pulse is over before the append and before
\* the increment of the counter.
C18_PulseBeforeRegistration ==
    /\ [][Len(motors') > Len(motors) =>
            LET o == motors'[Len(motors')]
            IN  /\ ResetHasRun(o)
                /\ ~ResetRunning(o)
                /\ reset_pin[o] = "HIGH"
                /\ \E t \in Threads :
                    /\ thr[t].self = o
                    /\ EndsWith(thr[t].out, <<Ev("reset", o, "LOW"),
                                              Ev("sleep", o, SettleMs),
                                              Ev("reset", o, "HIGH")>>)
                /\ count' = count]_vars
    /\ [][count' # count =>
            \E t \in Threads :
                /\ thr[t].pc = "init_count_write"
                /\ Registered(thr[t].self)
                /\ ~ResetRunning(thr[t].self)
                /\ reset_pin[thr[t].self] = "HIGH"]_vars

\* C18, as stated: reset_driver() drives the reset line low, waits the
\* settle delay and drives it high, in that order and to the end, so the
\* line is high whenever no reset_driver() call is running on a motor
\* that has been reset once; the constructor's pulse is over before the
\* append and before the increment of the counter.
C18_ResetPulse ==
    /\ [](\A o \in Objs :
            ResetHasRun(o) /\ ~ResetRunning(o) => reset_pin[o] = "HIGH")
    /\ C18_PulseOrder
    /\ C18_PulseBeforeRegistration

\* C18, amended: the same, with the line high only until shutdown_all()
\* has called gpio.cleanup(), which releases the reset pins.
C18_ResetPulseUntilCleanup ==
    /\ [](cleanups = 0 =>
            \A o \in Objs :
                ResetHasRun(o) /\ ~ResetRunning(o) => reset_pin[o] = "HIGH")
    /\ C18_PulseOrder
    /\ C18_PulseBeforeRegistration

\* A motor that was constructed has been reset again from outside, and
\* no cleanup has happened.
C18_Witness ==
    /\ last.op = "reset_driver"
    /\ last.result = "ok"
    /\ Registered(last.self)
    /\ count > 0
    /\ cleanups = 0
    /\ reset_pin[last.self] = "HIGH"

\* C16: the registry is updated under mutual exclusion: when two
\* constructions (or a construction and a shutdown) interleave, the
\* counter is never stored from a stale read, no two registered motors
\* have the same motor_id, and at most MaxMotors motors are registered.
C16_RegistryExclusive ==
    /\ \A t \in Threads : thr[t].pc = "init_count_write" => thr[t].tmp = count
    /\ \A i, j \in 1..Len(motors) :
        i # j => motor_id[motors[i]] # motor_id[motors[j]]
    /\ Len(motors) <= MaxMotors

\* C12: a _catch_fault invocation during which both fault lines keep
\* their levels logs Undervolt for (high, high), Overtemp for
\* (high, low) and ShortCircuitLatched for (low, high), whichever of the
\* two pins raised the interrupt; when the levels are still those of the
\* rising edge it logs exactly one classification.
C12_Classification ==
    flog.self # -1 /\ Cardinality(flog.held) = 1 =>
        /\ flog.held = {<<TRUE, TRUE>>} => flog.tags = <<"Undervolt">>
        /\ flog.held = {<<TRUE, FALSE>>} => flog.tags = <<"Overtemp">>
        /\ flog.held = {<<FALSE, TRUE>>}
            => flog.tags = <<"ShortCircuitLatched">>
        /\ flog.at \in flog.held => Len(flog.tags) = 1

\* fault_1 was high when fault_2 rose, both stayed high, and the
\* callback for pin 2 has logged.
C12_Witness ==
    /\ flog.self # -1
    /\ flog.channel = 2
    /\ flog.at = <<TRUE, TRUE>>
    /\ flog.held = {<<TRUE, TRUE>>}
    /\ flog.tags = <<"Undervolt">>

\* The pair of levels a classification stands for.
LevelsOf(tag) ==
    IF tag = "Undervolt" THEN <<TRUE, TRUE>>
    ELSE IF tag = "Overtemp" THEN <<TRUE, FALSE>>
    ELSE <<FALSE, TRUE>>

\* C15: with the fault lines free to change while _catch_fault runs, the
\* classification logged is the one of the levels at the moment of the
\* interrupt: every tag logged stands for a pair of levels that was held
\* during the handler, and an interrupt taken with a line high logs
\* something.
C15_ClassificationAtInterrupt ==
    flog.self # -1 =>
        /\ \A k \in 1..Len(flog.tags) :
            /\ LevelsOf(flog.tags[k]) = flog.at
            /\ LevelsOf(flog.tags[k]) \in flog.held
        /\ flog.at[1] \/ flog.at[2] => flog.tags # <<>>

\* C17: a step of _catch_fault changes no field of a Motor, not the
\* registry or the counter, no output line and no call in progress or
\* finished; it starts no reset_driver(), and what drive() would do is
\* the same after it as before.
C17_HandlerFrame ==
    [][handler'.pc # handler.pc =>
        /\ UNCHANGED <<progState, last, out, thr>>
        /\ \A o \in Objs :
            DriveOutcomes(o, <<1, 2>>)' = DriveOutcomes(o, <<1, 2>>)]_vars

\* The handler is in the middle of its tests while shutdown() is
\* between its drive(0) and its remove, on a motor driven by PWM.
C17_Witness ==
    /\ handler.pc \in {"if2", "if3", "if4"}
    /\ thr["main"].pc = "shutdown_remove"
    /\ handler.self = thr["main"].self
    /\ has_pwm[handler.self]

====
